---- MODULE Spec2Model ----
(***************************************************************************)
(* The task orchestrator of Stroidex (CoreEngine, PriorityQueue, Worker,   *)
(* WorkerPool), modelled from docs/stroidex/specs/process-orchestration.md *)
(* One action per operation or per step of a worker loop. The retry        *)
(* policy's backoff and the CLI's ProgressBar (internal/cli) are modelled   *)
(* beside it, each with variables and a specification of its own.          *)
(***************************************************************************)
EXTENDS Integers, Sequences, FiniteSets, TLC

\* ---------------------------------------------------------------- bounds
\* pq.maxSize (engine.queue.max_size), scaled down
Capacity == 2
\* how many tasks the engine creates at most (Parse tasks and the Index tasks
\* chained from them)
MaxTasks == 4
\* how many collaborator calls (ParseDocument, Index) may return an error
MaxFailures == 3

\* how far a jittered delay may lie from the computed one, in tenths of a
\* second
MaxJitter == 2
\* how many backoff delays are computed in a row
MaxBackoffs == 7

\* the width in bits of the ProgressBar's int64 fields, scaled down
IntBits == 4
\* how many files collectFiles returns at most
MaxFiles == 4
\* the largest --batch-size tried
MaxBatch == 3
\* how many ticks of the monitor's ticker are told apart
MaxTicks == 6

\* engine.retry.max_attempts
maxAttempts == 3
\* engine.retry.initial_delay (1s), in tenths of a second
baseDelay == 10
\* engine.retry.max_delay (30s), in tenths of a second
maxDelay == 300
\* engine.retry.backoff_factor
backoffFactor == 2

Workers == {"w1", "w2"}
\* the goroutines that call IncrementTotal on one bar
Callers == {"g1", "g2"}
Paths == {"a", "b"}

\* TaskType
TaskTypeParse == "parse"
TaskTypeIndex == "index"
TaskTypeUpdate == "update"
TaskTypeDelete == "delete"
TaskTypes == {TaskTypeParse, TaskTypeIndex, TaskTypeUpdate, TaskTypeDelete}
\* the values a caller may give Task.Type, a string: the four constants and
\* one that is none of them
Kinds == TaskTypes \cup {"rename"}

\* TaskStatus
TaskStatusPending == "pending"
TaskStatusRunning == "running"
TaskStatusCompleted == "completed"
TaskStatusFailed == "failed"
TaskStatusRetry == "retry"

\* EngineStatus
StatusStarting == "starting"
StatusRunning == "running"
StatusStopping == "stopping"
StatusStopped == "stopped"

VARIABLES
    tasks,          \* every Task created so far, by ID (its index); see NewTask
    queue,          \* pq.tasks: IDs of the queued tasks, in the order Enqueue put them
    closed,         \* the queue was closed
    stopChan,       \* TRUE once close(e.stopChan) ran
    engineStatus,   \* e.state.Status
    tasksTotal,     \* e.state.TasksTotal
    tasksDone,      \* e.state.TasksDone
    tasksFailed,    \* e.state.TasksFailed
    tasksAbandoned,           \* shutdown report: Pending tasks not processed
    tasksRunningAtShutdown,   \* shutdown report: tasks still Running
    pc,             \* where each worker loop stands
    cur,            \* the task a worker holds (0: none)
    res,            \* what the worker's process*Task call returned
    deqErr,         \* err of the worker's Dequeue call in this round of its loop
    timers,         \* tasks waiting out their backoff delay
    stopPc,         \* where the Stop call stands: idle, waiting, returned
    ctxDone,        \* Stop's ctx is cancelled or past its deadline
    stopCause,      \* which select case of Stop ran: none, done, timeout
    stopErr,        \* what Stop returned
    submitErr,      \* what the last ProcessFile call returned
    startErr,       \* what the last Start call returned
    failures,       \* number of collaborator errors drawn so far
    attempt,        \* retry policy: how many backoff delays were computed
    delay,          \* retry policy: the delay computed last
    lastDelay,      \* retry policy: the delay computed before that
    total,          \* pb.total
    current,        \* pb.current
    active,         \* pb.active
    late,           \* the tasks put into the queue after Stop was called
    incPc,          \* where each caller of IncrementTotal stands
    incDelta,       \* the delta each caller passes to IncrementTotal
    incArg,         \* the value pb.total + delta each caller computed
    total0,         \* pb.total before the callers began
    maxWorkers,     \* ic.maxWorkers
    batchSize,      \* ic.batchSize
    indexType,      \* ic.indexType
    indexErr,       \* what ic.validateConfig() returned
    OutputFormat,   \* config.OutputFormat
    Theme,          \* config.Theme
    configErr,      \* what validateConfig(config) returned
    daemon,         \* mc.daemon
    monPc,          \* where the monitoring loop stands
    sigChan,        \* number of signals buffered in sigChan (capacity 1)
    monCtxDone,     \* the monitor's ctx is cancelled
    monErr,         \* what the monitoring loop returned
    ticks,          \* ticker cases the loop ran, counted up to MaxTicks
    shutdowns,      \* calls of mc.gracefulShutdown
    summaries,      \* calls of mc.printSummary
    files,          \* the list collectFiles returned
    ixPc,           \* where runFullIndex stands
    loopI,          \* runFullIndex: i
    loopEnd,        \* runFullIndex: end
    batchPos,       \* processBatch: how many files of the batch the range loop passed
    processed,      \* processBatch: processed
    processedFiles, \* runFullIndex: processedFiles
    calls,          \* the files passed to processFile, in order
    batches,        \* the batches passed to processBatch, in order
    ixCtxDone,      \* the indexer's ctx is cancelled
    ixErr,          \* what runFullIndex returned
    statsTotal,     \* stats.TotalFiles
    statsProcessed, \* stats.ProcessedFiles
    statsSkipped    \* stats.SkippedFiles

\* e.state's counters
counters == <<tasksTotal, tasksDone, tasksFailed>>
\* the shutdown report
reportVars == <<tasksAbandoned, tasksRunningAtShutdown>>
\* the worker loops
workerVars == <<pc, cur, res, deqErr>>
\* the Stop call
stopVars == <<stopPc, ctxDone, stopCause, stopErr>>

\* the engine
engineVars == <<tasks, queue, closed, stopChan, engineStatus, counters, reportVars,
                workerVars, timers, stopVars, submitErr, startErr, failures>>
\* the backoff computation
retryVars == <<attempt, delay, lastDelay>>
\* the ProgressBar
barVars == <<total, current, active>>
\* the record of late enqueues
histVars == <<late>>
\* the callers of IncrementTotal
incVars == <<incPc, incDelta, incArg, total0>>
\* the configurations validated
configVars == <<maxWorkers, batchSize, indexType, indexErr, OutputFormat, Theme,
                configErr>>
\* the monitoring loop
monitorVars ==
    <<daemon, monPc, sigChan, monCtxDone, monErr, ticks, shutdowns, summaries>>
\* runFullIndex
indexVars == <<files, ixPc, loopI, loopEnd, batchPos, processed, processedFiles,
               calls, batches, ixCtxDone, ixErr, statsTotal, statsProcessed,
               statsSkipped>>
\* the CLI's commands
cliVars == <<incVars, configVars, monitorVars, indexVars>>
\* what no step of the engine touches, but for the record of late enqueues
libVars == <<retryVars, barVars, cliVars>>
\* what no step of the engine touches
nonEngineVars == <<libVars, histVars>>
\* what the backoff computation leaves alone
notRetryVars == <<engineVars, histVars, barVars, cliVars>>
\* what a method of the ProgressBar leaves alone
notBarVars == <<engineVars, histVars, retryVars, cliVars>>

vars == <<engineVars, histVars, retryVars, barVars, cliVars>>

\* ------------------------------------------------------------------ Task
\* A Task as the engine constructs it. ID is its index in tasks. parent,
\* invoked and retried record the run for the properties below: the Parse
\* task an Index task was chained from, the number of collaborator calls made
\* for the task that returned and the number of times it entered Retrying.
NewTask(type, path, priority, parent) ==
    [Type |-> type, FilePath |-> path, Priority |-> priority,
     Status |-> TaskStatusPending, RetryCount |-> 0,
     parent |-> parent, invoked |-> 0, retried |-> 0]

TaskIDs == 1..Len(tasks)

\* --------------------------------------------------------- PriorityQueue
\* the capacity check left out: the queue takes every task
QueueFullNever(q) == FALSE

\* the capacity check off by one: a full queue takes one more task
QueueFullOffByOne(q) == Len(q) > Capacity

\* len(pq.tasks) >= pq.maxSize
QueueFull(q) == Len(q) >= Capacity

\* heap.Push(pq, task): q lists the queued tasks in the order of their Enqueue
Enqueue(q, id) == Append(q, id)

\* a heap order without the sequence counter: among equal priorities the
\* task enqueued last comes first
LessUnstable(ts, q, i, j) ==
    \/ ts[q[i]].Priority < ts[q[j]].Priority
    \/ ts[q[i]].Priority = ts[q[j]].Priority /\ i > j

\* heap order: lower Priority first, earlier Enqueue first among equals
Less(ts, q, i, j) ==
    \/ ts[q[i]].Priority < ts[q[j]].Priority
    \/ ts[q[i]].Priority = ts[q[j]].Priority /\ i < j

MinIndex(ts, q) ==
    CHOOSE i \in 1..Len(q) : \A j \in (1..Len(q)) \ {i} : Less(ts, q, i, j)

RemoveAt(q, i) == SubSeq(q, 1, i - 1) \o SubSeq(q, i + 1, Len(q))

\* a Dequeue that truncates: once the queue is closed it returns ErrQueueClosed
\* whether or not tasks are left
DequeueAbrupt(ts, q, isClosed, cancelled) ==
    (IF q # <<>> /\ ~isClosed
        THEN {[task |-> q[MinIndex(ts, q)], err |-> "nil",
               rest |-> RemoveAt(q, MinIndex(ts, q))]}
        ELSE {})
    \cup (IF isClosed
             THEN {[task |-> 0, err |-> "ErrQueueClosed", rest |-> q]}
             ELSE {})
    \cup (IF cancelled
             THEN {[task |-> 0, err |-> "ErrCancelled", rest |-> q]}
             ELSE {})

\* a Dequeue that returns the head of the heap without popping it
DequeuePeek(ts, q, isClosed, cancelled) ==
    (IF q # <<>>
        THEN {[task |-> q[MinIndex(ts, q)], err |-> "nil", rest |-> q]}
        ELSE {})
    \cup (IF q = <<>> /\ isClosed
             THEN {[task |-> 0, err |-> "ErrQueueClosed", rest |-> q]}
             ELSE {})
    \cup (IF cancelled
             THEN {[task |-> 0, err |-> "ErrCancelled", rest |-> q]}
             ELSE {})

\* Dequeue(ctx): the returns the call may make now; none when it blocks
Dequeue(ts, q, isClosed, cancelled) ==
    (IF q # <<>>
        THEN {[task |-> q[MinIndex(ts, q)], err |-> "nil",
               rest |-> RemoveAt(q, MinIndex(ts, q))]}
        ELSE {})
    \cup (IF q = <<>> /\ isClosed
             THEN {[task |-> 0, err |-> "ErrQueueClosed", rest |-> q]}
             ELSE {})
    \cup (IF cancelled
             THEN {[task |-> 0, err |-> "ErrCancelled", rest |-> q]}
             ELSE {})

Close ==
    /\ ~closed
    /\ closed' = TRUE
    /\ UNCHANGED <<tasks, queue, stopChan, engineStatus, counters, reportVars,
                   workerVars, timers, stopVars, submitErr, startErr, failures>>

\* ------------------------------------------------------------ CoreEngine
InitEngine ==
    /\ tasks = <<>>
    /\ queue = <<>>
    /\ closed = FALSE
    /\ stopChan = FALSE
    /\ engineStatus = StatusStarting
    /\ tasksTotal = 0
    /\ tasksDone = 0
    /\ tasksFailed = 0
    /\ tasksAbandoned = 0
    /\ tasksRunningAtShutdown = 0
    /\ pc = [w \in Workers |-> "new"]
    /\ cur = [w \in Workers |-> 0]
    /\ res = [w \in Workers |-> "nil"]
    /\ deqErr = [w \in Workers |-> "nil"]
    /\ timers = {}
    /\ stopPc = "idle"
    /\ ctxDone = FALSE
    /\ stopCause = "none"
    /\ stopErr = "none"
    /\ submitErr = "nil"
    /\ startErr = "none"
    /\ failures = 0

\* no delay computed yet
InitRetry ==
    /\ attempt = 0
    /\ delay = 0
    /\ lastDelay = 0

\* NewProgressBar(description, 1)
InitBar ==
    /\ total = 1
    /\ current = 0
    /\ active = FALSE

\* a Start that spawns the pool's worker loops on every call
StartRespawn ==
    /\ engineStatus \in {StatusStarting, StatusRunning}
    /\ engineStatus' = StatusRunning
    /\ pc' = [w \in Workers |-> "select"]
    /\ startErr' = "nil"
    /\ UNCHANGED <<tasks, queue, closed, stopChan, counters, reportVars, cur, res,
                   deqErr, timers, stopVars, submitErr, failures>>

\* Start(ctx): the first call spawns the pool's worker loops; a call while the
\* engine is running returns ErrAlreadyRunning, one during or after Stop
\* returns ErrShuttingDown, and neither changes anything
Start ==
    /\ IF engineStatus = StatusStarting
          THEN /\ engineStatus' = StatusRunning
               /\ pc' = [w \in Workers |-> "select"]
               /\ startErr' = "nil"
          ELSE /\ startErr' = IF engineStatus = StatusRunning
                                 THEN "ErrAlreadyRunning"
                                 ELSE "ErrShuttingDown"
               /\ UNCHANGED <<engineStatus, pc>>
    /\ UNCHANGED <<tasks, queue, closed, stopChan, counters, reportVars, cur, res,
                   deqErr, timers, stopVars, submitErr, failures>>

\* e.calculatePriority(filePath): a fixed function of the path
calculatePriority(path) == IF path = "a" THEN 1 ELSE 2

\* the Parse tasks that may still chain an Index task
Unchained ==
    {id \in TaskIDs : /\ tasks[id].Type = TaskTypeParse
                      /\ tasks[id].Status # TaskStatusFailed
                      /\ \A i \in TaskIDs : tasks[i].parent # id}

\* a further Parse task and its Index task fit in MaxTasks
RoomForChain == Len(tasks) + Cardinality(Unchained) + 2 <= MaxTasks

\* processFile(ctx, filePath): a Parse task is built and enqueued. TasksTotal
\* counts every task the engine creates.
processFile(path) ==
    /\ IF QueueFull(queue)
          THEN /\ submitErr' = "ErrQueueFull"
               /\ UNCHANGED <<tasks, queue, tasksTotal>>
          ELSE /\ RoomForChain
               /\ submitErr' = "nil"
               /\ tasks' = Append(tasks,
                     NewTask(TaskTypeParse, path, calculatePriority(path), 0))
               /\ queue' = Enqueue(queue, Len(tasks) + 1)
               /\ tasksTotal' = tasksTotal + 1
    /\ UNCHANGED <<closed, stopChan, engineStatus, tasksDone, tasksFailed,
                   reportVars, workerVars, timers, stopVars, startErr, failures>>

\* a caller of the queue hands Enqueue a Task it built itself, of any Type:
\* Enqueue tests the size of the queue and nothing else
EnqueueTask(kind, path) ==
    /\ IF QueueFull(queue)
          THEN /\ submitErr' = "ErrQueueFull"
               /\ UNCHANGED <<tasks, queue, tasksTotal>>
          ELSE /\ RoomForChain
               /\ submitErr' = "nil"
               /\ tasks' = Append(tasks,
                     NewTask(kind, path, calculatePriority(path), 0))
               /\ queue' = Enqueue(queue, Len(tasks) + 1)
               /\ tasksTotal' = tasksTotal + 1
    /\ UNCHANGED <<closed, stopChan, engineStatus, tasksDone, tasksFailed,
                   reportVars, workerVars, timers, stopVars, startErr, failures>>
    /\ UNCHANGED nonEngineVars

\* a processParseTask that returns nil after ParseDocument without building
\* the Index task
processParseTaskNoChain(w, id, ok) ==
    /\ res' = [res EXCEPT ![w] = IF ok THEN "nil" ELSE "error"]
    /\ tasks' = [tasks EXCEPT ![id].invoked = @ + 1]
    /\ UNCHANGED <<queue, tasksTotal>>

\* a processParseTask that leaves Priority out of the Index task's literal: the
\* field takes its zero value
processParseTaskNoPriority(w, id, ok) ==
    IF ~ok
       THEN /\ res' = [res EXCEPT ![w] = "error"]
            /\ tasks' = [tasks EXCEPT ![id].invoked = @ + 1]
            /\ UNCHANGED <<queue, tasksTotal>>
       ELSE IF QueueFull(queue)
          THEN /\ res' = [res EXCEPT ![w] = "ErrQueueFull"]
               /\ tasks' = [tasks EXCEPT ![id].invoked = @ + 1]
               /\ UNCHANGED <<queue, tasksTotal>>
          ELSE /\ res' = [res EXCEPT ![w] = "nil"]
               /\ tasks' = Append([tasks EXCEPT ![id].invoked = @ + 1],
                     NewTask(TaskTypeIndex, tasks[id].FilePath, 0, id))
               /\ queue' = Enqueue(queue, Len(tasks) + 1)
               /\ tasksTotal' = tasksTotal + 1

\* a processParseTask that wraps the result of Enqueue without testing it for
\* nil: the call returns an error although the Index task was enqueued
processParseTaskWrapsNil(w, id, ok) ==
    IF ~ok \/ QueueFull(queue)
       THEN /\ res' = [res EXCEPT ![w] = "error"]
            /\ tasks' = [tasks EXCEPT ![id].invoked = @ + 1]
            /\ UNCHANGED <<queue, tasksTotal>>
       ELSE /\ res' = [res EXCEPT ![w] = "error"]
            /\ tasks' = Append([tasks EXCEPT ![id].invoked = @ + 1],
                  NewTask(TaskTypeIndex, tasks[id].FilePath, tasks[id].Priority, id))
            /\ queue' = Enqueue(queue, Len(tasks) + 1)
            /\ tasksTotal' = tasksTotal + 1

\* a processParseTask that builds and enqueues the Index task before it looks
\* at the error of ParseDocument
processParseTaskNoErrCheck(w, id, ok) ==
    IF QueueFull(queue)
       THEN /\ res' = [res EXCEPT ![w] = IF ok THEN "ErrQueueFull" ELSE "error"]
            /\ tasks' = [tasks EXCEPT ![id].invoked = @ + 1]
            /\ UNCHANGED <<queue, tasksTotal>>
       ELSE /\ res' = [res EXCEPT ![w] = IF ok THEN "nil" ELSE "error"]
            /\ tasks' = Append([tasks EXCEPT ![id].invoked = @ + 1],
                  NewTask(TaskTypeIndex, tasks[id].FilePath, tasks[id].Priority, id))
            /\ queue' = Enqueue(queue, Len(tasks) + 1)
            /\ tasksTotal' = tasksTotal + 1

\* processParseTask(task): ParseDocument, then the Index task is built and
\* enqueued; the Enqueue error, if any, is the call's result
processParseTask(w, id, ok) ==
    IF ~ok
       THEN /\ res' = [res EXCEPT ![w] = "error"]
            /\ tasks' = [tasks EXCEPT ![id].invoked = @ + 1]
            /\ UNCHANGED <<queue, tasksTotal>>
       ELSE IF QueueFull(queue)
          THEN /\ res' = [res EXCEPT ![w] = "ErrQueueFull"]
               /\ tasks' = [tasks EXCEPT ![id].invoked = @ + 1]
               /\ UNCHANGED <<queue, tasksTotal>>
          ELSE /\ res' = [res EXCEPT ![w] = "nil"]
               /\ tasks' = Append([tasks EXCEPT ![id].invoked = @ + 1],
                     NewTask(TaskTypeIndex, tasks[id].FilePath, tasks[id].Priority, id))
               /\ queue' = Enqueue(queue, Len(tasks) + 1)
               /\ tasksTotal' = tasksTotal + 1

\* processIndexTask(task): the Indexer stores the document
processIndexTask(w, id, ok) ==
    /\ res' = [res EXCEPT ![w] = IF ok THEN "nil" ELSE "error"]
    /\ tasks' = [tasks EXCEPT ![id].invoked = @ + 1]
    /\ UNCHANGED <<queue, tasksTotal>>

\* processUpdateTask(task), processDeleteTask(task): the collaborator call
processUpdateTask(w, id, ok) == processIndexTask(w, id, ok)

processDeleteTask(w, id, ok) == processIndexTask(w, id, ok)

\* ---------------------------------------------------------------- Worker
\* Worker.Start loop, the select: a closed stopChan ends the loop
WorkerSelect(w) ==
    /\ pc[w] = "select"
    /\ pc' = [pc EXCEPT ![w] = IF stopChan THEN "exited" ELSE "dequeue"]
    /\ deqErr' = [deqErr EXCEPT ![w] = "nil"]
    /\ UNCHANGED <<tasks, queue, closed, stopChan, engineStatus, counters,
                   reportVars, cur, res, timers, stopVars, submitErr, startErr, failures>>

\* Worker.Start loop, the default case: Dequeue returns; on an error the loop
\* continues, on a task processTask begins (Status = Running)
WorkerDequeue(w) ==
    /\ pc[w] = "dequeue"
    /\ \E r \in Dequeue(tasks, queue, closed, stopChan) :
          /\ deqErr' = [deqErr EXCEPT ![w] = r.err]
          /\ queue' = r.rest
          /\ IF r.err = "nil"
                THEN /\ tasks' = [tasks EXCEPT ![r.task].Status = TaskStatusRunning]
                     /\ cur' = [cur EXCEPT ![w] = r.task]
                     /\ pc' = [pc EXCEPT ![w] = "process"]
                ELSE /\ pc' = [pc EXCEPT ![w] = "select"]
                     /\ UNCHANGED <<tasks, cur>>
    /\ UNCHANGED <<closed, stopChan, engineStatus, counters, reportVars, res,
                   timers, stopVars, submitErr, startErr, failures>>

\* Worker.processTask, the switch on task.Type: the collaborator call returns.
\* The switch has no default: for any other Type no call is made and err
\* stays nil
processTask(w) ==
    /\ pc[w] = "process"
    /\ \E ok \in BOOLEAN :
          /\ ok \/ failures < MaxFailures
          /\ failures' = IF ok THEN failures ELSE failures + 1
          /\ CASE tasks[cur[w]].Type = TaskTypeParse ->
                     processParseTask(w, cur[w], ok)
               [] tasks[cur[w]].Type = TaskTypeIndex ->
                     processIndexTask(w, cur[w], ok)
               [] tasks[cur[w]].Type = TaskTypeUpdate ->
                     processUpdateTask(w, cur[w], ok)
               [] tasks[cur[w]].Type = TaskTypeDelete ->
                     processDeleteTask(w, cur[w], ok)
               [] OTHER ->
                     /\ ok
                     /\ res' = [res EXCEPT ![w] = "nil"]
                     /\ UNCHANGED <<tasks, queue, tasksTotal>>
    /\ pc' = [pc EXCEPT ![w] = "report"]
    /\ UNCHANGED <<closed, stopChan, engineStatus, tasksDone, tasksFailed,
                   reportVars, cur, deqErr, timers, stopVars, submitErr, startErr>>

\* Worker.processTask, the call of ParseDocument panics: neither processTask
\* nor the loop of Worker.Start (defer w.wg.Done() only) recovers, so the Go
\* runtime ends the program; the engine's memory is left as it was
processTaskPanic(w) ==
    /\ pc[w] = "process"
    /\ tasks[cur[w]].Type = TaskTypeParse
    /\ pc' = [pc EXCEPT ![w] = "crashed"]
    /\ UNCHANGED <<tasks, queue, closed, stopChan, engineStatus, counters,
                   reportVars, cur, res, deqErr, timers, stopVars, submitErr,
                   startErr, failures>>

\* Worker.processTask, the collaborator call does not return: the call is made
\* without a context or a deadline (engine.workers.timeout is read nowhere),
\* so the worker stays in it
processTaskHangs(w) ==
    /\ pc[w] = "process"
    /\ pc' = [pc EXCEPT ![w] = "hung"]
    /\ UNCHANGED <<tasks, queue, closed, stopChan, engineStatus, counters,
                   reportVars, cur, res, deqErr, timers, stopVars, submitErr,
                   startErr, failures>>
    /\ UNCHANGED nonEngineVars

\* the program has ended on an unrecovered panic
Crashed == \E w \in Workers : pc[w] = "crashed"

\* the comparison against max - 1: one attempt too few
RetryAllowedOneLess(attempts) == attempts < maxAttempts - 1

\* the comparison off by one: one retry too many
RetryAllowedOffByOne(attempts) == attempts <= maxAttempts

\* node D of the error handling flowchart: retry attempts < max
RetryAllowed(attempts) == attempts < maxAttempts

\* a handleTaskSuccess that updates TasksDone without the lock: the increment
\* is lost when another worker is reporting at the same time
handleTaskSuccessRacy(id) ==
    /\ tasks' = [tasks EXCEPT ![id].Status = TaskStatusCompleted]
    /\ tasksDone' = IF \E w \in Workers : pc[w] = "report" /\ cur[w] # id
                       THEN tasksDone
                       ELSE tasksDone + 1
    /\ UNCHANGED <<tasksFailed, timers>>

\* handleTaskSuccess(task)
handleTaskSuccess(id) ==
    /\ tasks' = [tasks EXCEPT ![id].Status = TaskStatusCompleted]
    /\ tasksDone' = tasksDone + 1
    /\ UNCHANGED <<tasksFailed, timers>>

\* a handleTaskError whose "No" edge does not leave the retry path: the task
\* is marked failed and its backoff timer is armed all the same
handleTaskErrorRearms(id) ==
    /\ timers' = timers \cup {id}
    /\ IF RetryAllowed(tasks[id].RetryCount + 1)
          THEN /\ tasks' = [tasks EXCEPT ![id].Status = TaskStatusRetry,
                                         ![id].RetryCount = @ + 1,
                                         ![id].retried = @ + 1]
               /\ UNCHANGED <<tasksDone, tasksFailed>>
          ELSE /\ tasks' = [tasks EXCEPT ![id].Status = TaskStatusFailed,
                                         ![id].RetryCount = @ + 1]
               /\ tasksFailed' = tasksFailed + 1
               /\ UNCHANGED tasksDone

\* handleTaskError(task, err): the attempt is counted, then either the task
\* waits for its backoff timer or it is marked failed
handleTaskError(id) ==
    IF RetryAllowed(tasks[id].RetryCount + 1)
       THEN /\ tasks' = [tasks EXCEPT ![id].Status = TaskStatusRetry,
                                      ![id].RetryCount = @ + 1,
                                      ![id].retried = @ + 1]
            /\ timers' = timers \cup {id}
            /\ UNCHANGED <<tasksDone, tasksFailed>>
       ELSE /\ tasks' = [tasks EXCEPT ![id].Status = TaskStatusFailed,
                                      ![id].RetryCount = @ + 1]
            /\ tasksFailed' = tasksFailed + 1
            /\ UNCHANGED <<tasksDone, timers>>

\* a worker that waits out the backoff delay itself (time.Sleep before the
\* requeue): it keeps the task and does not go round its loop
WorkerReportSleeps(w) ==
    /\ pc[w] = "report"
    /\ IF res[w] = "nil" THEN handleTaskSuccess(cur[w]) ELSE handleTaskError(cur[w])
    /\ IF res[w] # "nil" /\ RetryAllowed(tasks[cur[w]].RetryCount + 1)
          THEN /\ pc' = [pc EXCEPT ![w] = "backoff"]
               /\ UNCHANGED cur
          ELSE /\ pc' = [pc EXCEPT ![w] = "select"]
               /\ cur' = [cur EXCEPT ![w] = 0]
    /\ res' = [res EXCEPT ![w] = "nil"]
    /\ UNCHANGED <<queue, closed, stopChan, engineStatus, tasksTotal, reportVars,
                   deqErr, stopVars, submitErr, startErr, failures>>

\* Worker.processTask, the if after the switch; then the loop goes round
WorkerReport(w) ==
    /\ pc[w] = "report"
    /\ IF res[w] = "nil" THEN handleTaskSuccess(cur[w]) ELSE handleTaskError(cur[w])
    /\ pc' = [pc EXCEPT ![w] = "select"]
    /\ cur' = [cur EXCEPT ![w] = 0]
    /\ res' = [res EXCEPT ![w] = "nil"]
    /\ UNCHANGED <<queue, closed, stopChan, engineStatus, tasksTotal, reportVars,
                   deqErr, stopVars, submitErr, startErr, failures>>

\* a requeue that leaves the task's timer armed: the timer fires again
RequeueKeepsTimer(id) ==
    /\ id \in timers
    /\ ~QueueFull(queue)
    /\ tasks' = [tasks EXCEPT ![id].Status = TaskStatusPending]
    /\ queue' = Enqueue(queue, id)
    /\ timers' = timers
    /\ UNCHANGED <<closed, stopChan, engineStatus, counters, reportVars, workerVars,
                   stopVars, submitErr, startErr, failures>>

\* nodes F and G of the flowchart: the delay is over and the task is requeued;
\* while the queue is full the timer is armed again
Requeue(id) ==
    /\ id \in timers
    /\ ~QueueFull(queue)
    /\ tasks' = [tasks EXCEPT ![id].Status = TaskStatusPending]
    /\ queue' = Enqueue(queue, id)
    /\ timers' = timers \ {id}
    /\ UNCHANGED <<closed, stopChan, engineStatus, counters, reportVars, workerVars,
                   stopVars, submitErr, startErr, failures>>

\* -------------------------------------------------------- CoreEngine.Stop
\* e.state.Status = StatusStopping; close(e.stopChan); the wait begins
Stop ==
    /\ engineStatus = StatusRunning
    /\ stopPc = "idle"
    /\ engineStatus' = StatusStopping
    /\ stopChan' = TRUE
    /\ stopPc' = "waiting"
    /\ UNCHANGED <<tasks, queue, closed, counters, reportVars, workerVars, timers,
                   ctxDone, stopCause, stopErr, submitErr, startErr, failures>>

\* the deadline of Stop's ctx passes
CtxExpire ==
    /\ stopPc = "waiting"
    /\ ~ctxDone
    /\ ctxDone' = TRUE
    /\ UNCHANGED <<tasks, queue, closed, stopChan, engineStatus, counters,
                   reportVars, workerVars, timers, stopPc, stopCause, stopErr,
                   submitErr, startErr, failures>>

\* a wait group that counts one worker only: the first loop to end releases it
WaitGroupAny == \E w \in Workers : pc[w] = "exited"

\* e.wg.Wait() has returned: every worker loop has ended
WaitGroupDone == \A w \in Workers : pc[w] = "exited"

\* what Stop returns after the select case named: return nil, whichever ran
StopResult(cause) == "nil"

\* the select of Stop takes a ready case; then Status = StatusStopped, return.
\* Nothing in Stop counts the tasks left Pending or still Running.
StopReturn(cause) ==
    /\ stopPc = "waiting"
    /\ \/ cause = "done" /\ WaitGroupDone
       \/ cause = "timeout" /\ ctxDone
    /\ stopCause' = cause
    /\ engineStatus' = StatusStopped
    /\ stopErr' = StopResult(cause)
    /\ stopPc' = "returned"
    /\ UNCHANGED <<tasks, queue, closed, stopChan, counters, reportVars, workerVars,
                   timers, ctxDone, submitErr, startErr, failures>>

\* Stop is called again after it returned: e.state.Status = StatusStopping,
\* whatever the status was
StopAgain ==
    /\ stopPc = "returned"
    /\ engineStatus' = StatusStopping
    /\ stopPc' = "closing"
    /\ UNCHANGED <<tasks, queue, closed, stopChan, counters, reportVars, workerVars,
                   timers, ctxDone, stopCause, stopErr, submitErr, startErr, failures>>
    /\ UNCHANGED nonEngineVars

\* the second close(e.stopChan) panics (close of closed channel) and the
\* runtime ends the program
StopAgainPanics ==
    /\ stopPc = "closing"
    /\ stopPc' = "panicked"
    /\ UNCHANGED <<tasks, queue, closed, stopChan, engineStatus, counters, reportVars,
                   workerVars, timers, ctxDone, stopCause, stopErr, submitErr,
                   startErr, failures>>
    /\ UNCHANGED nonEngineVars

\* nothing was enqueued late
InitHist == late = {}

\* no caller of IncrementTotal has begun
InitInc ==
    /\ incPc = [c \in Callers |-> "idle"]
    /\ incDelta = [c \in Callers |-> 0]
    /\ incArg = [c \in Callers |-> 0]
    /\ total0 = 0

\* the defaults of the flags; nothing validated yet
InitConfig ==
    /\ maxWorkers = 4
    /\ batchSize = 100
    /\ indexType = "full"
    /\ indexErr = "none"
    /\ OutputFormat = "table"
    /\ Theme = "default"
    /\ configErr = "none"

\* the monitor command has not entered its loop
InitMonitor ==
    /\ daemon = FALSE
    /\ monPc = "new"
    /\ sigChan = 0
    /\ monCtxDone = FALSE
    /\ monErr = "none"
    /\ ticks = 0
    /\ shutdowns = 0
    /\ summaries = 0

\* runFullIndex was not called
InitIndex ==
    /\ files = <<>>
    /\ ixPc = "new"
    /\ loopI = 0
    /\ loopEnd = 0
    /\ batchPos = 0
    /\ processed = 0
    /\ processedFiles = 0
    /\ calls = <<>>
    /\ batches = <<>>
    /\ ixCtxDone = FALSE
    /\ ixErr = "none"
    /\ statsTotal = 0
    /\ statsProcessed = 0
    /\ statsSkipped = 0

InitCli == InitInc /\ InitConfig /\ InitMonitor /\ InitIndex

Init == InitEngine /\ InitHist /\ InitRetry /\ InitBar /\ InitCli

\* the engine with a caller that calls Start once, before anything is running;
\* no step is taken once the program has ended
Next ==
    \/ ~Crashed /\ engineStatus = StatusStarting /\ Start /\ UNCHANGED nonEngineVars
    \/ ~Crashed /\ \E p \in Paths : processFile(p) /\ UNCHANGED nonEngineVars
    \/ ~Crashed /\ Close /\ UNCHANGED nonEngineVars
    \/ ~Crashed /\ \E w \in Workers : WorkerSelect(w) /\ UNCHANGED nonEngineVars
    \/ ~Crashed /\ \E w \in Workers : WorkerDequeue(w) /\ UNCHANGED nonEngineVars
    \/ ~Crashed /\ \E w \in Workers : processTask(w) /\ UNCHANGED nonEngineVars
    \/ ~Crashed /\ \E w \in Workers : processTaskPanic(w) /\ UNCHANGED nonEngineVars
    \/ ~Crashed /\ \E w \in Workers : WorkerReport(w) /\ UNCHANGED nonEngineVars
    \/ ~Crashed /\ \E id \in TaskIDs : Requeue(id) /\ UNCHANGED nonEngineVars
    \/ ~Crashed /\ Stop /\ UNCHANGED nonEngineVars
    \/ ~Crashed /\ CtxExpire /\ UNCHANGED nonEngineVars
    \/ ~Crashed /\ \E cause \in {"done", "timeout"} : StopReturn(cause) /\ UNCHANGED nonEngineVars

Spec == Init /\ [][Next]_vars

\* the engine with callers that call Start at any time and collaborators that
\* return no error, so that no task is retried
NextLifecycle ==
    \/ Start /\ UNCHANGED nonEngineVars
    \/ \E p \in Paths : processFile(p) /\ UNCHANGED nonEngineVars
    \/ Close /\ UNCHANGED nonEngineVars
    \/ \E w \in Workers : WorkerSelect(w) /\ UNCHANGED nonEngineVars
    \/ \E w \in Workers : WorkerDequeue(w) /\ UNCHANGED nonEngineVars
    \/ \E w \in Workers : processTask(w) /\ failures' = failures /\ UNCHANGED nonEngineVars
    \/ \E w \in Workers : WorkerReport(w) /\ UNCHANGED nonEngineVars
    \/ Stop /\ UNCHANGED nonEngineVars
    \/ CtxExpire /\ UNCHANGED nonEngineVars
    \/ \E cause \in {"done", "timeout"} : StopReturn(cause) /\ UNCHANGED nonEngineVars

SpecLifecycle == Init /\ [][NextLifecycle]_vars

\* the engine with callers of its queue that build the Task themselves;
\* collaborators return no error
NextKinds ==
    \/ engineStatus = StatusStarting /\ Start /\ UNCHANGED nonEngineVars
    \/ \E k \in Kinds, p \in Paths : EnqueueTask(k, p)
    \/ \E w \in Workers : WorkerSelect(w) /\ UNCHANGED nonEngineVars
    \/ \E w \in Workers : WorkerDequeue(w) /\ UNCHANGED nonEngineVars
    \/ \E w \in Workers : processTask(w) /\ failures' = failures /\ UNCHANGED nonEngineVars
    \/ \E w \in Workers : WorkerReport(w) /\ UNCHANGED nonEngineVars

SpecKinds == Init /\ [][NextKinds]_vars

\* the engine with collaborators whose calls return no error or do not return
NextHang ==
    \/ engineStatus = StatusStarting /\ Start /\ UNCHANGED nonEngineVars
    \/ \E p \in Paths : processFile(p) /\ UNCHANGED nonEngineVars
    \/ \E w \in Workers : WorkerSelect(w) /\ UNCHANGED nonEngineVars
    \/ \E w \in Workers : WorkerDequeue(w) /\ UNCHANGED nonEngineVars
    \/ \E w \in Workers : processTask(w) /\ failures' = failures /\ UNCHANGED nonEngineVars
    \/ \E w \in Workers : processTaskHangs(w)
    \/ \E w \in Workers : WorkerReport(w) /\ UNCHANGED nonEngineVars

SpecHang == Init /\ [][NextHang]_vars

\* the loop of worker w takes its next step; collaborators return no error
WorkerStep(w) ==
    /\ \/ WorkerSelect(w)
       \/ WorkerDequeue(w)
       \/ processTask(w) /\ failures' = failures
       \/ WorkerReport(w)
    /\ UNCHANGED nonEngineVars

\* a burst of ProcessFile calls, then Start, then the pool works the queue
\* off with collaborators that return no error
NextScenario ==
    \/ engineStatus = StatusStarting /\ \E p \in Paths : processFile(p) /\ UNCHANGED nonEngineVars
    \/ engineStatus = StatusStarting /\ Start /\ UNCHANGED nonEngineVars
    \/ \E w \in Workers : WorkerSelect(w) /\ UNCHANGED nonEngineVars
    \/ \E w \in Workers : WorkerDequeue(w) /\ UNCHANGED nonEngineVars
    \/ \E w \in Workers : processTask(w) /\ failures' = failures /\ UNCHANGED nonEngineVars
    \/ \E w \in Workers : WorkerReport(w) /\ UNCHANGED nonEngineVars

\* every worker goroutine that can run is scheduled in the end
SpecScenario ==
    /\ Init
    /\ [][NextScenario]_vars
    /\ \A w \in Workers : WF_vars(WorkerStep(w))

\* a task that a step puts into the queue once stopChan is closed is recorded
RecordLate ==
    late' = IF stopChan
               THEN late \cup ({queue'[n] : n \in 1..Len(queue')}
                                 \ {queue[n] : n \in 1..Len(queue)})
               ELSE late

\* the engine from Start to the return of Stop, with the record of the tasks
\* that a retry timer or a chain advancement enqueues after Stop was called
NextShutdown ==
    \/ engineStatus = StatusStarting /\ Start /\ UNCHANGED nonEngineVars
    \/ \E p \in Paths : processFile(p) /\ UNCHANGED nonEngineVars
    \/ \E w \in Workers : WorkerSelect(w) /\ UNCHANGED nonEngineVars
    \/ \E w \in Workers : WorkerDequeue(w) /\ UNCHANGED nonEngineVars
    \/ \E w \in Workers : processTask(w) /\ RecordLate /\ UNCHANGED libVars
    \/ \E w \in Workers : WorkerReport(w) /\ UNCHANGED nonEngineVars
    \/ \E id \in TaskIDs : Requeue(id) /\ RecordLate /\ UNCHANGED libVars
    \/ Stop /\ UNCHANGED nonEngineVars
    \/ CtxExpire /\ UNCHANGED nonEngineVars
    \/ \E cause \in {"done", "timeout"} : StopReturn(cause) /\ UNCHANGED nonEngineVars

SpecShutdown == Init /\ [][NextShutdown]_vars

\* the queue with all its callers: ProcessFile, callers that enqueue Update
\* tasks for one path (they chain nothing, so that more than Capacity tasks
\* are in flight within MaxTasks; the queue never looks at the path), chain
\* advancement, the retry re-enqueue and the workers
NextQueue ==
    \/ engineStatus = StatusStarting /\ Start /\ UNCHANGED nonEngineVars
    \/ \E p \in Paths : processFile(p) /\ UNCHANGED nonEngineVars
    \/ EnqueueTask(TaskTypeUpdate, "a")
    \/ \E w \in Workers : WorkerSelect(w) /\ UNCHANGED nonEngineVars
    \/ \E w \in Workers : WorkerDequeue(w) /\ UNCHANGED nonEngineVars
    \/ \E w \in Workers : processTask(w) /\ UNCHANGED nonEngineVars
    \/ \E w \in Workers : WorkerReport(w) /\ UNCHANGED nonEngineVars
    \/ \E id \in TaskIDs : Requeue(id) /\ UNCHANGED nonEngineVars

SpecQueue == Init /\ [][NextQueue]_vars

\* the engine with callers that call Start at any time and Stop again after
\* it returned; collaborators return no error; no step is taken once the
\* program has ended
NextRestop ==
    \/ stopPc # "panicked" /\ Start /\ UNCHANGED nonEngineVars
    \/ stopPc # "panicked" /\ \E p \in Paths : processFile(p) /\ UNCHANGED nonEngineVars
    \/ stopPc # "panicked" /\ \E w \in Workers : WorkerSelect(w) /\ UNCHANGED nonEngineVars
    \/ stopPc # "panicked" /\ \E w \in Workers : WorkerDequeue(w) /\ UNCHANGED nonEngineVars
    \/ stopPc # "panicked" /\ \E w \in Workers : processTask(w) /\ failures' = failures /\ UNCHANGED nonEngineVars
    \/ stopPc # "panicked" /\ \E w \in Workers : WorkerReport(w) /\ UNCHANGED nonEngineVars
    \/ stopPc # "panicked" /\ Stop /\ UNCHANGED nonEngineVars
    \/ stopPc # "panicked" /\ CtxExpire /\ UNCHANGED nonEngineVars
    \/ stopPc # "panicked" /\ \E cause \in {"done", "timeout"} : StopReturn(cause) /\ UNCHANGED nonEngineVars
    \/ StopAgain
    \/ StopAgainPanics

SpecRestop == Init /\ [][NextRestop]_vars

\* ----------------------------------------------------------- RetryPolicy
Min(a, b) == IF a <= b THEN a ELSE b

\* the delay without the cap
BackoffNoCap(k) == baseDelay * backoffFactor ^ k

\* min(maxDelay, baseDelay * 2^attempt): the delay before jitter
Backoff(k) == Min(maxDelay, baseDelay * backoffFactor ^ k)

\* the values randomJitter may take
Jitters == (0 - MaxJitter)..MaxJitter

\* the policy computes the delay before the next attempt of a task
NextBackoff ==
    /\ attempt < MaxBackoffs
    /\ \E j \in Jitters : delay' = Backoff(attempt) + j
    /\ lastDelay' = delay
    /\ attempt' = attempt + 1
    /\ UNCHANGED notRetryVars

SpecBackoff == Init /\ [][NextBackoff]_vars

\* ----------------------------------------------------------- ProgressBar
\* the values of a signed integer of IntBits bits
Int64 == (0 - 2 ^ (IntBits - 1))..(2 ^ (IntBits - 1) - 1)

\* signed arithmetic wraps around
Wrap(x) == ((x + 2 ^ (IntBits - 1)) % 2 ^ IntBits) - 2 ^ (IntBits - 1)

\* NewProgressBar(description, total)
NewProgressBar ==
    /\ total \in Int64
    /\ current = 0
    /\ active = FALSE

\* pb.Start()
BarStart ==
    /\ active' = TRUE
    /\ UNCHANGED <<total, current, notBarVars>>

\* pb.UpdateTo(value)
UpdateTo(value) ==
    /\ current' = IF value < 0
                      THEN 0
                      ELSE IF value > total /\ total > 0 THEN total ELSE value
    /\ UNCHANGED <<total, active, notBarVars>>

\* pb.Add(delta)
Add(delta) ==
    /\ current' = IF Wrap(current + delta) < 0
                      THEN 0
                      ELSE IF Wrap(current + delta) > total /\ total > 0
                              THEN total
                              ELSE Wrap(current + delta)
    /\ UNCHANGED <<total, active, notBarVars>>

\* pb.Update()
Update == Add(1)

\* pb.SetTotal(total)
SetTotal(t) ==
    /\ total' = t
    /\ current' = IF current > t THEN t ELSE current
    /\ UNCHANGED <<active, notBarVars>>

\* pb.Finish()
Finish ==
    /\ current' = IF total > 0 THEN total ELSE current
    /\ active' = FALSE
    /\ UNCHANGED <<total, notBarVars>>

\* a ProgressBar and the calls its owner makes
NextBar ==
    \/ BarStart
    \/ Update
    \/ \E delta \in Int64 : Add(delta)
    \/ \E value \in Int64 : UpdateTo(value)
    \/ \E t \in Int64 : SetTotal(t)
    \/ Finish

\* a ProgressBar constructed with any total
InitAnyBar == InitEngine /\ InitHist /\ InitRetry /\ NewProgressBar /\ InitCli

SpecBar == InitAnyBar /\ [][NextBar]_vars

\* -------------------------------------------------------- IncrementTotal
\* the amounts given to IncrementTotal
Deltas == {1, 2, 3}

\* pb.IncrementTotal(delta), first half: the argument pb.total + delta is
\* evaluated; pb.mu is not held
IncrementTotalRead(c, delta) ==
    /\ incPc[c] = "idle"
    /\ incPc' = [incPc EXCEPT ![c] = "read"]
    /\ incDelta' = [incDelta EXCEPT ![c] = delta]
    /\ incArg' = [incArg EXCEPT ![c] = Wrap(total + delta)]
    /\ UNCHANGED <<total0, barVars>>
    /\ UNCHANGED <<engineVars, histVars, retryVars, configVars, monitorVars, indexVars>>

\* pb.IncrementTotal(delta), second half: pb.SetTotal(argument), under pb.mu
IncrementTotalSet(c) ==
    /\ incPc[c] = "read"
    /\ incPc' = [incPc EXCEPT ![c] = "done"]
    /\ total' = incArg[c]
    /\ current' = IF current > incArg[c] THEN incArg[c] ELSE current
    /\ UNCHANGED <<active, incDelta, incArg, total0>>
    /\ UNCHANGED <<engineVars, histVars, retryVars, configVars, monitorVars, indexVars>>

\* a new ProgressBar that the callers have not touched yet
InitAnyInc ==
    /\ InitEngine /\ InitHist /\ InitRetry /\ NewProgressBar
    /\ incPc = [c \in Callers |-> "idle"]
    /\ incDelta = [c \in Callers |-> 0]
    /\ incArg = [c \in Callers |-> 0]
    /\ total0 = total
    /\ InitConfig /\ InitMonitor /\ InitIndex

\* goroutines that each call pb.IncrementTotal once
NextInc ==
    \/ \E c \in Callers, delta \in Deltas : IncrementTotalRead(c, delta)
    \/ \E c \in Callers : IncrementTotalSet(c)

SpecInc == InitAnyInc /\ [][NextInc]_vars

\* ---------------------------------------------------------- runFullIndex
\* the index command's other variables
notIndexVars ==
    <<engineVars, histVars, retryVars, barVars, incVars, monitorVars,
      maxWorkers, indexType, indexErr, OutputFormat, Theme, configErr>>

\* runFullIndex up to the loop: collectFiles has returned files;
\* stats.TotalFiles = len(files); an empty list returns nil at once
runFullIndexStart ==
    /\ ixPc = "new"
    /\ statsTotal' = Len(files)
    /\ IF Len(files) = 0
          THEN /\ ixPc' = "returned"
               /\ ixErr' = "nil"
          ELSE /\ ixPc' = "loop"
               /\ ixErr' = ixErr
    /\ processedFiles' = 0
    /\ loopI' = 0
    /\ UNCHANGED <<files, batchSize, loopEnd, batchPos, processed, calls, batches,
                   ixCtxDone, statsProcessed, statsSkipped, notIndexVars>>

\* for i < len(files): end is i + batchSize clamped to len(files) and
\* processBatch is entered with files[i:end]; after the loop the summary is
\* written and nil returned
runFullIndexLoop ==
    /\ ixPc = "loop"
    /\ IF loopI < Len(files)
          THEN /\ loopEnd' = IF loopI + batchSize > Len(files)
                                THEN Len(files)
                                ELSE loopI + batchSize
               /\ batches' = Append(batches, SubSeq(files, loopI + 1, loopEnd'))
               /\ processed' = 0
               /\ batchPos' = loopI
               /\ ixPc' = "batch"
               /\ UNCHANGED <<ixErr, statsProcessed, statsSkipped>>
          ELSE /\ statsProcessed' = processedFiles
               /\ statsSkipped' = statsTotal - processedFiles
               /\ ixPc' = "returned"
               /\ ixErr' = "nil"
               /\ UNCHANGED <<loopEnd, batches, processed, batchPos>>
    /\ UNCHANGED <<files, batchSize, loopI, processedFiles, calls, ixCtxDone,
                   statsTotal, notIndexVars>>

\* one round of processBatch's range loop: a cancelled ctx returns what was
\* processed so far; otherwise the file goes to processFile, which returns
\* nil, and processed is incremented; after the last file it returns
processBatch ==
    /\ ixPc = "batch"
    /\ IF batchPos < loopEnd /\ ~ixCtxDone
          THEN /\ calls' = Append(calls, files[batchPos + 1])
               /\ processed' = processed + 1
               /\ batchPos' = batchPos + 1
               /\ ixPc' = ixPc
          ELSE /\ ixPc' = "after"
               /\ UNCHANGED <<calls, processed, batchPos>>
    /\ UNCHANGED <<files, batchSize, loopI, loopEnd, processedFiles, batches,
                   ixCtxDone, ixErr, statsTotal, statsProcessed, statsSkipped,
                   notIndexVars>>

\* a runFullIndexAfterBatch whose loop steps by batchSize + 1
runFullIndexAfterBatchSkips ==
    /\ ixPc = "after"
    /\ processedFiles' = processedFiles + processed
    /\ IF ixCtxDone
          THEN /\ ixPc' = "returned"
               /\ ixErr' = "ctx"
               /\ loopI' = loopI
          ELSE /\ ixPc' = "loop"
               /\ ixErr' = ixErr
               /\ loopI' = loopI + batchSize + 1
    /\ UNCHANGED <<files, batchSize, loopEnd, batchPos, processed, calls, batches,
                   ixCtxDone, statsTotal, statsProcessed, statsSkipped,
                   notIndexVars>>

\* after processBatch: processedFiles += batchProcessed; a cancelled ctx
\* returns ctx.Err(); otherwise i += batchSize
runFullIndexAfterBatch ==
    /\ ixPc = "after"
    /\ processedFiles' = processedFiles + processed
    /\ IF ixCtxDone
          THEN /\ ixPc' = "returned"
               /\ ixErr' = "ctx"
               /\ loopI' = loopI
          ELSE /\ ixPc' = "loop"
               /\ ixErr' = ixErr
               /\ loopI' = loopI + batchSize
    /\ UNCHANGED <<files, batchSize, loopEnd, batchPos, processed, calls, batches,
                   ixCtxDone, statsTotal, statsProcessed, statsSkipped,
                   notIndexVars>>

\* the caller's context is cancelled while runFullIndex has not returned
CancelIndex ==
    /\ ixPc # "returned"
    /\ ~ixCtxDone
    /\ ixCtxDone' = TRUE
    /\ UNCHANGED <<files, batchSize, ixPc, loopI, loopEnd, batchPos, processed,
                   processedFiles, calls, batches, ixErr, statsTotal,
                   statsProcessed, statsSkipped, notIndexVars>>

\* any list of collected files and any batch size that validateConfig accepts
InitAnyIndex ==
    /\ InitEngine /\ InitHist /\ InitRetry /\ InitBar /\ InitInc /\ InitMonitor
    /\ maxWorkers = 4
    /\ batchSize \in 1..MaxBatch
    /\ indexType = "full"
    /\ indexErr = "nil"
    /\ OutputFormat = "table"
    /\ Theme = "default"
    /\ configErr = "nil"
    /\ files \in {[k \in 1..n |-> k] : n \in 0..MaxFiles}
    /\ ixPc = "new"
    /\ loopI = 0
    /\ loopEnd = 0
    /\ batchPos = 0
    /\ processed = 0
    /\ processedFiles = 0
    /\ calls = <<>>
    /\ batches = <<>>
    /\ ixCtxDone = FALSE
    /\ ixErr = "none"
    /\ statsTotal = 0
    /\ statsProcessed = 0
    /\ statsSkipped = 0

\* the goroutine that runs runFullIndex
IndexStep ==
    \/ runFullIndexStart
    \/ runFullIndexLoop
    \/ processBatch
    \/ runFullIndexAfterBatch

NextIndex ==
    \/ runFullIndexStart
    \/ runFullIndexLoop
    \/ processBatch
    \/ runFullIndexAfterBatch
    \/ CancelIndex

\* the goroutine keeps running until runFullIndex returns
SpecIndex == InitAnyIndex /\ [][NextIndex]_vars /\ WF_vars(IndexStep)

\* ------------------------------------------------------------ runMonitor
\* everything but the monitor command
notMonitorVars ==
    <<engineVars, histVars, retryVars, barVars, incVars, configVars, indexVars>>

\* runMonitor: the context is made, sigChan (buffer 1) is registered for
\* SIGINT and SIGTERM, and runDaemonMode or runInteractiveMode enters its loop
runMonitor ==
    /\ monPc = "new"
    /\ monPc' = "select"
    /\ UNCHANGED <<daemon, sigChan, monCtxDone, monErr, ticks, shutdowns, summaries>>
    /\ UNCHANGED notMonitorVars

\* SIGINT or SIGTERM arrives: the runtime puts it on sigChan unless the
\* buffer is full
SignalArrives ==
    /\ monPc \in {"select", "tick"}
    /\ sigChan = 0
    /\ sigChan' = 1
    /\ UNCHANGED <<daemon, monPc, monCtxDone, monErr, ticks, shutdowns, summaries>>
    /\ UNCHANGED notMonitorVars

\* the context given to the loop is cancelled
CancelMonitor ==
    /\ monPc \in {"select", "tick"}
    /\ ~monCtxDone
    /\ monCtxDone' = TRUE
    /\ UNCHANGED <<daemon, monPc, sigChan, monErr, ticks, shutdowns, summaries>>
    /\ UNCHANGED notMonitorVars

\* case <-ctx.Done(): (interactive: printSummary) return nil
SelectCtxDone ==
    /\ monPc = "select"
    /\ monCtxDone
    /\ summaries' = IF daemon THEN summaries ELSE summaries + 1
    /\ monPc' = "returned"
    /\ monErr' = "nil"
    /\ UNCHANGED <<daemon, sigChan, monCtxDone, ticks, shutdowns>>
    /\ UNCHANGED notMonitorVars

\* a signal case that takes the signal and goes on with the loop
SelectSignalIgnored ==
    /\ monPc = "select"
    /\ sigChan = 1
    /\ sigChan' = 0
    /\ UNCHANGED <<daemon, monPc, monCtxDone, monErr, ticks, shutdowns, summaries>>
    /\ UNCHANGED notMonitorVars

\* case <-sigChan: (interactive: printSummary) return mc.gracefulShutdown(ctx),
\* which returns nil
SelectSignal ==
    /\ monPc = "select"
    /\ sigChan = 1
    /\ sigChan' = 0
    /\ summaries' = IF daemon THEN summaries ELSE summaries + 1
    /\ shutdowns' = shutdowns + 1
    /\ monPc' = "returned"
    /\ monErr' = "nil"
    /\ UNCHANGED <<daemon, monCtxDone, ticks>>
    /\ UNCHANGED notMonitorVars

\* case <-ticker.C: the ticker has fired
SelectTick ==
    /\ monPc = "select"
    /\ monPc' = "tick"
    /\ UNCHANGED <<daemon, sigChan, monCtxDone, monErr, ticks, shutdowns, summaries>>
    /\ UNCHANGED notMonitorVars

\* the body of the ticker case: processChanges returns nil (daemon),
\* detectChanges returns no events (interactive); back to the select
TickDone ==
    /\ monPc = "tick"
    /\ ticks' = IF ticks < MaxTicks THEN ticks + 1 ELSE ticks
    /\ monPc' = "select"
    /\ UNCHANGED <<daemon, sigChan, monCtxDone, monErr, shutdowns, summaries>>
    /\ UNCHANGED notMonitorVars

\* a monitor command in daemon or in interactive mode
InitAnyMonitor ==
    /\ InitEngine /\ InitHist /\ InitRetry /\ InitBar
    /\ InitInc /\ InitConfig /\ InitIndex
    /\ daemon \in BOOLEAN
    /\ monPc = "new"
    /\ sigChan = 0
    /\ monCtxDone = FALSE
    /\ monErr = "none"
    /\ ticks = 0
    /\ shutdowns = 0
    /\ summaries = 0

NextMonitor ==
    \/ runMonitor
    \/ SignalArrives
    \/ CancelMonitor
    \/ SelectCtxDone
    \/ SelectSignal
    \/ SelectTick
    \/ TickDone

\* the goroutine keeps running; a select with several ready cases picks one
\* at random, so a case that is ready again and again is taken
SpecMonitor ==
    /\ InitAnyMonitor
    /\ [][NextMonitor]_vars
    /\ WF_vars(runMonitor)
    /\ WF_vars(TickDone)
    /\ SF_vars(SelectSignal)
    /\ SF_vars(SelectCtxDone)

\* -------------------------------------------------------- validateConfig
\* the values given to --workers, --batch-size and --type
WorkerCounts == {0 - 1, 0, 1, 4, 50, 51}
BatchSizes == {0 - 1, 0, 1, 100, 10000, 10001}
IndexTypes == {"full", "incremental", "partial", "invalid", "Full", ""}
\* the values given to config.OutputFormat and config.Theme
OutputFormats == {"table", "json", "yaml", "xml", "JSON", ""}
Themes == {"default", "dark", "light", "none", "neon", "Dark", ""}

\* validTypes, validFormats, validThemes
validTypes == {"full", "incremental", "partial"}
validFormats == {"table", "json", "yaml"}
validThemes == {"default", "dark", "light", "none"}

\* an IndexCommand.validateConfig whose upper test on the workers is >=
IndexValidateConfigOffByOne(workers, batch, type) ==
    IF workers < 1 \/ workers >= 50
       THEN "workers"
       ELSE IF batch < 1 \/ batch > 10000
               THEN "batch size"
               ELSE IF type \notin validTypes THEN "index type" ELSE "nil"

\* IndexCommand.validateConfig: nil, or the field the error names
IndexValidateConfig(workers, batch, type) ==
    IF workers < 1 \/ workers > 50
       THEN "workers"
       ELSE IF batch < 1 \/ batch > 10000
               THEN "batch size"
               ELSE IF type \notin validTypes THEN "index type" ELSE "nil"

\* a validateConfig that tests the theme first
validateConfigThemeFirst(format, theme) ==
    IF theme \notin validThemes
       THEN "theme"
       ELSE IF format \notin validFormats THEN "output format" ELSE "nil"

\* validateConfig(config): nil, or the field the error names
validateConfig(format, theme) ==
    IF format \notin validFormats
       THEN "output format"
       ELSE IF theme \notin validThemes THEN "theme" ELSE "nil"

\* ic.validateConfig() is called
ValidateIndex ==
    /\ indexErr = "none"
    /\ indexErr' = IndexValidateConfig(maxWorkers, batchSize, indexType)
    /\ UNCHANGED <<maxWorkers, batchSize, indexType, OutputFormat, Theme, configErr>>
    /\ UNCHANGED <<engineVars, histVars, retryVars, barVars, incVars, monitorVars,
                   indexVars>>

\* validateConfig(config) is called
ValidateCli ==
    /\ configErr = "none"
    /\ configErr' = validateConfig(OutputFormat, Theme)
    /\ UNCHANGED <<maxWorkers, batchSize, indexType, indexErr, OutputFormat, Theme>>
    /\ UNCHANGED <<engineVars, histVars, retryVars, barVars, incVars, monitorVars,
                   indexVars>>

\* any flags, nothing validated yet
AnyConfig ==
    /\ maxWorkers \in WorkerCounts
    /\ batchSize \in BatchSizes
    /\ indexType \in IndexTypes
    /\ indexErr = "none"
    /\ OutputFormat \in OutputFormats
    /\ Theme \in Themes
    /\ configErr = "none"

InitAnyConfig ==
    /\ InitEngine /\ InitHist /\ InitRetry /\ InitBar
    /\ InitInc /\ AnyConfig /\ InitMonitor /\ InitIndex

NextConfig ==
    \/ ValidateIndex
    \/ ValidateCli

SpecConfig == InitAnyConfig /\ [][NextConfig]_vars

\* ------------------------------------------------------------ properties
InFlight(id) == tasks[id].Status \in {TaskStatusPending, TaskStatusRunning}

\* C1: for every subject path at most one task is Pending or Running.
C1_DedupInvariant ==
    \A p \in Paths :
        Cardinality({id \in TaskIDs : tasks[id].FilePath = p /\ InFlight(id)}) <= 1

\* C2: an Index task is Pending or Running only when the Parse task it was
\* chained from is Completed.
C2_OrderingInvariant ==
    \A id \in TaskIDs :
        (tasks[id].Type = TaskTypeIndex /\ InFlight(id))
            => tasks[tasks[id].parent].Status = TaskStatusCompleted

\* the tasks that are neither Completed nor terminally Failed
Unfinished ==
    {id \in TaskIDs : tasks[id].Status \notin {TaskStatusCompleted, TaskStatusFailed}}

\* C3: no work is lost: once Stop has returned, every worker loop has ended and
\* no retry timer is armed (nothing will run any more), every task is
\* Completed, terminally Failed or reported as abandoned.
C3_NoWorkLost ==
    (stopPc = "returned" /\ WaitGroupDone /\ timers = {})
        => Cardinality(Unfinished) <= tasksAbandoned

\* C4: conservation law: after Stop has returned, the snapshot accounts for
\* every task: abandoned + completed + failed + running at shutdown = total.
C4_ConservationLaw ==
    stopPc = "returned"
        => tasksAbandoned + tasksDone + tasksFailed + tasksRunningAtShutdown
               = tasksTotal

\* C5: retry trace with maxAttempts = 3: a task that ends Failed was executed
\* exactly 3 times and entered Retrying exactly twice; no task is executed
\* more than 3 times or retried more than twice, and a task whose third
\* attempt has failed is Failed, not retried.
C5_RetryTrace ==
    \A id \in TaskIDs :
        /\ tasks[id].invoked <= 3
        /\ tasks[id].retried <= 2
        /\ tasks[id].Status = TaskStatusFailed
              => tasks[id].invoked = 3 /\ tasks[id].retried = 2
        /\ tasks[id].RetryCount >= 3 => tasks[id].Status = TaskStatusFailed
        /\ tasks[id].Status = TaskStatusRetry => id \in timers

C5_Witness ==
    \E id \in TaskIDs :
        /\ tasks[id].Status = TaskStatusFailed
        /\ tasks[id].invoked = 3
        /\ tasks[id].retried = 2

Position(q, id) ==
    IF \E i \in 1..Len(q) : q[i] = id
       THEN CHOOSE i \in 1..Len(q) : q[i] = id
       ELSE 0

\* C7: each Dequeue returns the queued task with the lowest Priority value
\* and, among the queued tasks of that Priority, the one enqueued first.
C7_QueueOrdering ==
    [][\A w \in Workers :
          (pc[w] = "dequeue" /\ pc'[w] = "process")
              => /\ Position(queue, cur'[w]) > 0
                 /\ queue' = RemoveAt(queue, Position(queue, cur'[w]))
                 /\ \A i \in 1..Len(queue) :
                       \/ tasks[cur'[w]].Priority < tasks[queue[i]].Priority
                       \/ /\ tasks[cur'[w]].Priority = tasks[queue[i]].Priority
                          /\ Position(queue, cur'[w]) <= i]_vars

\* a worker holds a task that Dequeue returned ahead of a task of a higher
\* Priority value enqueued before it (neither was ever requeued, so the IDs
\* give the order of their Enqueue calls) and still queued
C7_Witness ==
    \E w \in Workers :
        /\ pc[w] = "process"
        /\ tasks[cur[w]].RetryCount = 0
        /\ \E i \in 1..Len(queue) :
              /\ tasks[queue[i]].Priority > tasks[cur[w]].Priority
              /\ tasks[queue[i]].Type = TaskTypeParse
              /\ tasks[queue[i]].RetryCount = 0
              /\ queue[i] < cur[w]

Running == {id \in TaskIDs : tasks[id].Status = TaskStatusRunning}

\* C9: Stop returns only when no task is Running any more or its ctx is
\* done; while neither holds it stays blocked, and once ctx is done it can
\* return although a task is still Running.
C9_StopBlocks ==
    /\ stopPc = "returned" => (Running = {} \/ ctxDone)
    /\ (stopPc = "waiting" /\ ~ctxDone /\ Running # {})
          => \A cause \in {"done", "timeout"} : ~ENABLED StopReturn(cause)
    /\ (stopPc = "waiting" /\ ctxDone) => ENABLED StopReturn("timeout")
    /\ (stopPc = "waiting" /\ WaitGroupDone) => ENABLED StopReturn("done")

C9_Witness ==
    /\ stopPc = "returned"
    /\ stopCause = "timeout"
    /\ Running # {}

\* C10: what Stop returns tells the two ends apart: nil when every in-flight
\* task finished, an error when ctx expired first; after a timeout the report
\* counts the tasks still Running and the Pending tasks abandoned.
C10_StopResultIdentifies ==
    stopPc = "returned"
        => /\ stopCause = "done" => stopErr = "nil"
           /\ stopCause = "timeout" => stopErr # "nil"

\* C11: a ProcessFile call made once Stop has been initiated (Status Stopping
\* or Stopped) returns ErrShuttingDown; it creates and enqueues no task and
\* leaves the engine's counters as they were.
C11_SubmitAfterStop ==
    [][\A p \in Paths :
          (engineStatus \in {StatusStopping, StatusStopped} /\ processFile(p))
              => /\ submitErr' = "ErrShuttingDown"
                 /\ tasks' = tasks
                 /\ queue' = queue
                 /\ counters' = counters]_vars

\* C12: a Start call made while the engine is running returns
\* ErrAlreadyRunning and is a no-op: no worker loop is spawned or restarted
\* and neither the queue nor the engine's state changes.
C12_StartIdempotent ==
    [][(engineStatus = StatusRunning /\ Start)
          => /\ startErr' = "ErrAlreadyRunning"
             /\ UNCHANGED <<tasks, queue, closed, stopChan, engineStatus,
                            counters, reportVars, workerVars, timers, stopVars,
                            submitErr, failures>>]_vars

\* the second Start call has returned while a worker is executing a task and
\* another task is queued
C12_Witness ==
    /\ startErr = "ErrAlreadyRunning"
    /\ engineStatus = StatusRunning
    /\ queue # <<>>
    /\ \E w \in Workers : pc[w] = "process"

\* the tasks chained from task id: they carry the document parsed for it
Chained(id) == {i \in TaskIDs : tasks[i].parent = id}

\* C13: chain advancement: a Parse task that is Completed has exactly one
\* task chained from it, an Index task for the same path; no Parse task ever
\* has more than one, so no second task holds its payload; and only Parse
\* tasks have tasks chained from them.
C13_ChainAdvancement ==
    \A id \in TaskIDs :
        /\ Cardinality(Chained(id)) <= 1
        /\ (tasks[id].Type = TaskTypeParse /\ tasks[id].Status = TaskStatusCompleted)
              => Cardinality(Chained(id)) = 1
        /\ \A i \in Chained(id) :
              /\ tasks[id].Type = TaskTypeParse
              /\ tasks[i].Type = TaskTypeIndex
              /\ tasks[i].FilePath = tasks[id].FilePath

\* a Parse task that failed once and then succeeded is Completed, with its one
\* Index task
C13_Witness ==
    \E id \in TaskIDs :
        /\ tasks[id].Type = TaskTypeParse
        /\ tasks[id].Status = TaskStatusCompleted
        /\ tasks[id].invoked = 2
        /\ Cardinality(Chained(id)) = 1

\* task id becomes terminally Failed in this step
BecomesFailed(id) ==
    tasks[id].Status # TaskStatusFailed /\ tasks'[id].Status = TaskStatusFailed

\* C14: a Parse task that is terminally Failed has no Index task chained from
\* it, in any later state either; the step that marks it Failed adds exactly
\* one to tasksFailed, and tasksFailed changes in no other kind of step.
C14_ParseFailureHaltsChain ==
    /\ [](\A id \in TaskIDs :
             (tasks[id].Type = TaskTypeParse /\ tasks[id].Status = TaskStatusFailed)
                 => Chained(id) = {})
    /\ [][/\ \A id \in TaskIDs :
               (tasks[id].Type = TaskTypeParse /\ BecomesFailed(id))
                   => tasksFailed' = tasksFailed + 1
          /\ tasksFailed' # tasksFailed
                => Cardinality({id \in TaskIDs : BecomesFailed(id)}) = 1]_vars

\* a Parse task has failed terminally and been counted; the engine went on
\* to accept a further file for the same path
C14_Witness ==
    \E id \in TaskIDs :
        /\ tasks[id].Type = TaskTypeParse
        /\ tasks[id].Status = TaskStatusFailed
        /\ Chained(id) = {}
        /\ tasksFailed = 1
        /\ \E i \in TaskIDs : i > id /\ tasks[i].FilePath = tasks[id].FilePath

Terminal(id) == tasks[id].Status \in {TaskStatusCompleted, TaskStatusFailed}

Queued(q) == {q[i] : i \in 1..Len(q)}

\* the status changes of a task: Pending -> Running -> {Completed | Retrying
\* -> Pending | Failed}
StatusEdges ==
    {<<TaskStatusPending, TaskStatusRunning>>,
     <<TaskStatusRunning, TaskStatusCompleted>>,
     <<TaskStatusRunning, TaskStatusRetry>>,
     <<TaskStatusRunning, TaskStatusFailed>>,
     <<TaskStatusRetry, TaskStatusPending>>}

Uncounted(id) ==
    IF \/ tasks[id].Status = TaskStatusCompleted
       \/ \E w \in Workers : cur[w] = id /\ pc[w] = "report"
       THEN 1
       ELSE 0

C17_ShutdownByStatus ==
    [][\A id \in TaskIDs :
          (/\ stopPc = "returned"
           /\ tasks[id].Status = TaskStatusPending
           /\ id \in Queued(queue))
              => tasks'[id].Status = TaskStatusPending]_vars

\* C18: the counters of the snapshot are accurate in every state: TasksDone
\* is the number of Completed tasks and TasksFailed the number of terminally
\* Failed tasks, whatever the interleaving of the workers' reports.
C18_StatusAccurate ==
    /\ tasksDone =
          Cardinality({id \in TaskIDs : tasks[id].Status = TaskStatusCompleted})
    /\ tasksFailed =
          Cardinality({id \in TaskIDs : tasks[id].Status = TaskStatusFailed})

\* two outcomes are counted, one of them a completion, while both workers
\* are about to report
C18_Witness ==
    /\ tasksDone + tasksFailed >= 2
    /\ tasksDone >= 1
    /\ \A w \in Workers : pc[w] = "report"

\* C19: failure isolation: when the collaborator call a worker made for its
\* task ends, by an error or by a panic, the worker goes on to report the
\* outcome; the report of an error makes the task Retrying or Failed and the
\* loop goes round; neither step ends a worker loop or the program, moves
\* another worker or changes the status of another task.
C19_FailureIsolation ==
    [][\A w \in Workers :
          /\ (pc[w] = "process" /\ pc'[w] # "process")
                => /\ pc'[w] = "report"
                   /\ ~Crashed'
                   /\ \A v \in Workers \ {w} : pc'[v] = pc[v]
                   /\ \A id \in TaskIDs \ {cur[w]} :
                         tasks'[id].Status = tasks[id].Status
          /\ (pc[w] = "report" /\ res[w] # "nil" /\ pc'[w] # "report")
                => /\ pc'[w] = "select"
                   /\ tasks'[cur[w]].Status \in {TaskStatusRetry, TaskStatusFailed}
                   /\ \A v \in Workers \ {w} : pc'[v] = pc[v]
                   /\ \A id \in TaskIDs \ {cur[w]} :
                         tasks'[id].Status = tasks[id].Status]_vars

\* C20: backoff occupies no worker: a task that is Retrying waits on its
\* retry timer and no worker holds it; the step that makes a task Retrying
\* sends its worker back to the top of its loop; while tasks wait for their
\* retry a worker at Dequeue is handed a queued task as at any other time.
C20_BackoffFreesWorker ==
    /\ [](\A id \in TaskIDs :
             tasks[id].Status = TaskStatusRetry
                 => id \in timers /\ \A w \in Workers : cur[w] # id)
    /\ [][\A w \in Workers :
             (cur[w] # 0 /\ tasks'[cur[w]].Status = TaskStatusRetry)
                 => pc'[w] = "select" /\ cur'[w] = 0]_vars
    /\ [](\A w \in Workers :
             (timers # {} /\ pc[w] = "dequeue" /\ queue # <<>>)
                 => ENABLED WorkerDequeue(w))

\* a task waits for its retry while every worker holds another task that is
\* Running
C20_Witness ==
    \E id \in timers :
        /\ tasks[id].Status = TaskStatusRetry
        /\ \A w \in Workers :
              cur[w] \notin {0, id} /\ tasks[cur[w]].Status = TaskStatusRunning

\* the worker loops that are running: none once the program has ended
LiveLoops ==
    IF Crashed
       THEN {}
       ELSE {w \in Workers : pc[w] \in {"select", "dequeue", "process", "report"}}

\* C21: bounded concurrency: from Start until Stop is called all n worker
\* loops of the pool are running, and in every state at most n tasks are
\* Running.
C21_BoundedConcurrency ==
    /\ Cardinality(Running) <= Cardinality(Workers)
    /\ engineStatus = StatusRunning => LiveLoops = Workers

ChainFrame ==
    /\ \A id \in TaskIDs :
          /\ tasks'[id].Priority = tasks[id].Priority
          /\ tasks'[id].Type = tasks[id].Type
          /\ tasks'[id].FilePath = tasks[id].FilePath
    /\ \A id \in timers \ timers' :
          /\ queue' = Append(queue, id)
          /\ Len(tasks') = Len(tasks)

\* C23: priority is preserved along a chain: an Index task has the priority
\* of the Parse task it was chained from, no step changes the priority, kind
\* or subject of a task, and a retry re-enqueue puts the same task (same id)
\* back in the queue.
C23_PriorityPreserved ==
    /\ [](\A id \in TaskIDs :
            tasks[id].parent # 0
                => tasks[id].Priority = tasks[tasks[id].parent].Priority)
    /\ [][ChainFrame]_vars

\* an Index task of priority 2, chained from a Parse task of priority 2, is
\* back in the queue after a retry
C23_Witness ==
    \E id \in Queued(queue) :
        /\ tasks[id].Type = TaskTypeIndex
        /\ tasks[id].RetryCount >= 1
        /\ tasks[id].Priority = 2
        /\ tasks[tasks[id].parent].Priority = 2

\* C24: a task whose kind is none of Parse, Index, Update and Delete is
\* rejected when it is submitted: no such task is created, so none is ever
\* executed by a worker and none is ever marked Completed.
C24_UnknownKindRejected ==
    /\ \A id \in TaskIDs : tasks[id].Type \in TaskTypes
    /\ \A id \in TaskIDs :
          tasks[id].Status \in {TaskStatusRunning, TaskStatusCompleted}
              => tasks[id].Type \in TaskTypes

\* a step that takes worker w out of the place it is in
Leaves(w) == NextHang /\ pc'[w] # pc[w]

\* C25: a worker never blocks indefinitely in a collaborator call: a worker
\* whose call has not returned can always take a step out of it (the per-task
\* timeout gives the task a Failed outcome and the worker returns to
\* dequeueing).
C25_TimeoutUnblocks ==
    \A w \in Workers : pc[w] = "hung" => ENABLED Leaves(w)

DistinctPaths ==
    \A i, j \in TaskIDs :
        /\ i # j
        /\ tasks[i].Type = TaskTypeParse
        /\ tasks[j].Type = TaskTypeParse
        => tasks[i].FilePath # tasks[j].FilePath

\* every chain is complete: each task is Completed, each Parse task has its
\* Index task, no task failed and the queue is empty
AllChainsCompleted ==
    /\ \A id \in TaskIDs : tasks[id].Status = TaskStatusCompleted
    /\ \A id \in TaskIDs : tasks[id].Type = TaskTypeParse => Chained(id) # {}
    /\ tasksDone = Len(tasks)
    /\ tasksFailed = 0
    /\ queue = <<>>

\* C27: Parse tasks for k distinct paths were submitted, the pool is running
\* and Parser and Storage always succeed: under fair scheduling all 2k tasks
\* are Completed in the end, tasksFailed is 0 and the queue is empty.
C27_ScenarioCompletes ==
    (engineStatus = StatusRunning /\ tasks # <<>> /\ DistinctPaths)
        ~> AllChainsCompleted

\* the chains of two distinct paths, four tasks, are complete
C27_Witness ==
    /\ DistinctPaths
    /\ Len(tasks) = 4
    /\ AllChainsCompleted

\* C28: coalescing: of the Parse tasks submitted for one path before any of
\* them was dequeued, exactly one executes.
C28_Coalescing ==
    \A p \in Paths :
        Cardinality({id \in TaskIDs :
            /\ tasks[id].Type = TaskTypeParse
            /\ tasks[id].FilePath = p
            /\ tasks[id].Status \in {TaskStatusRunning, TaskStatusCompleted}}) <= 1

\* C30: after any sequence of Start, Update, Add, UpdateTo, SetTotal and
\* Finish calls, a ProgressBar whose total is positive has
\* 0 <= current <= total.
C30_ProgressBounds ==
    total > 0 => (0 <= current /\ current <= total)

\* the workers that hold task id
Holders(id) == {w \in Workers : cur[w] = id}

\* C34: exclusive dequeue: a Dequeue hands a queued task to the calling
\* worker alone and takes it out of the queue, so a Running task is held by
\* exactly one worker, and a task that was executed successfully is Completed
\* for good: it is not queued, held or executed again.
C34_ExclusiveDequeue ==
    /\ [](\A id \in TaskIDs :
            /\ Cardinality(Holders(id)) <= 1
            /\ tasks[id].Status = TaskStatusRunning => Cardinality(Holders(id)) = 1
            /\ tasks[id].Status = TaskStatusCompleted
                  => Holders(id) = {} /\ id \notin Queued(queue))
    /\ [][\A w \in Workers :
             (pc[w] = "dequeue" /\ pc'[w] = "process")
                 => /\ cur'[w] \in Queued(queue)
                    /\ cur'[w] \notin Queued(queue')
                    /\ \A v \in Workers \ {w} : cur'[v] # cur'[w]]_vars
    /\ [][\A id \in TaskIDs :
             tasks[id].Status = TaskStatusCompleted
                 => tasks'[id] = tasks[id]]_vars

\* both workers execute a task at once, one of them a task that was requeued
\* after a failure, while a third task is Completed
C34_Witness ==
    /\ \A w \in Workers : pc[w] = "process" /\ tasks[cur[w]].Status = TaskStatusRunning
    /\ \E w \in Workers : tasks[cur[w]].RetryCount >= 1
    /\ \E id \in TaskIDs : tasks[id].Status = TaskStatusCompleted

\* no step starts work that shutdown should have stopped
NoLateStart ==
    /\ \A id \in late :
          tasks[id].Status # TaskStatusRunning => tasks'[id].Status # TaskStatusRunning
    /\ (stopPc = "returned" /\ WaitGroupDone)
          => \A id \in TaskIDs :
                tasks'[id].Status = TaskStatusRunning
                    => tasks[id].Status = TaskStatusRunning

\* C35: no work starts after shutdown: a task that a retry timer or a chain
\* advancement put into the queue after Stop was called is never put into
\* Running, and once Stop has returned with every worker finished no task
\* becomes Running.
C35_NoWorkAfterShutdown == [][NoLateStart]_vars

\* C36: queue capacity: in every state the queue holds at most Capacity
\* tasks, whatever the interleaving of the Enqueue calls of ProcessFile, of
\* the retry re-enqueue and of chain advancement with the Dequeue calls.
C36_QueueCapacity == Len(queue) <= Capacity

\* the queue is at capacity with an Index task from a chain advancement and
\* a task from a retry re-enqueue, after a ProcessFile call was refused
C36_Witness ==
    /\ Len(queue) = Capacity
    /\ submitErr = "ErrQueueFull"
    /\ \E n \in 1..Len(queue) : tasks[queue[n]].Type = TaskTypeIndex
    /\ \E n \in 1..Len(queue) : tasks[queue[n]].RetryCount >= 1

\* where a status stands in Starting, Running, Stopping, Stopped
Rank(status) ==
    CASE status = StatusStarting -> 0
      [] status = StatusRunning -> 1
      [] status = StatusStopping -> 2
      [] status = StatusStopped -> 3

\* a step moves the status forward or leaves it, Stop sets Stopping when it
\* begins to wait, and a Stopped engine is not Running after the step
LifecycleStep ==
    /\ Rank(engineStatus') >= Rank(engineStatus)
    /\ (stopPc = "idle" /\ stopPc' = "waiting") => engineStatus' = StatusStopping
    /\ engineStatus = StatusStopped => engineStatus' # StatusRunning

\* C37: the status only moves forward along Starting, Running, Stopping,
\* Stopped; Stop sets Stopping before it waits and leaves Stopped when it
\* returns, also when ctx expired first; once Stopped the status never
\* returns to Running.
C37_LifecycleForward ==
    /\ [][LifecycleStep]_vars
    /\ [](stopPc = "returned" => engineStatus = StatusStopped)

\* the three fields of the IndexCommand are in range
WorkersValid == 1 <= maxWorkers /\ maxWorkers <= 50
BatchValid == 1 <= batchSize /\ batchSize <= 10000
TypeValid == indexType \in {"full", "incremental", "partial"}

\* C31: IndexCommand.validateConfig returns nil exactly when the workers are
\* in 1..50, the batch size in 1..10000 and the index type one of full,
\* incremental, partial; otherwise its error names the first violated field
\* in the order workers, batch size, index type.
C31_IndexValidate ==
    indexErr # "none"
        => /\ indexErr = "nil" <=> (WorkersValid /\ BatchValid /\ TypeValid)
           /\ ~WorkersValid => indexErr = "workers"
           /\ (WorkersValid /\ ~BatchValid) => indexErr = "batch size"
           /\ (WorkersValid /\ BatchValid /\ ~TypeValid) => indexErr = "index type"

\* 50 workers and a batch of 10000 were accepted
C31_Witness ==
    /\ indexErr = "nil"
    /\ maxWorkers = 50
    /\ batchSize = 10000

\* the two fields of the CommandConfig are valid
FormatValid == OutputFormat \in {"table", "json", "yaml"}
ThemeValid == Theme \in {"default", "dark", "light", "none"}

\* C32: validateConfig returns nil exactly when the output format is one of
\* table, json, yaml and the theme one of default, dark, light, none;
\* otherwise it returns an error, about the output format when that is
\* invalid, else about the theme.
C32_ConfigValidate ==
    configErr # "none"
        => /\ configErr = "nil" <=> (FormatValid /\ ThemeValid)
           /\ ~FormatValid => configErr = "output format"
           /\ (FormatValid /\ ~ThemeValid) => configErr = "theme"

\* format and theme are both invalid and the error is about the format
C32_Witness ==
    /\ configErr = "output format"
    /\ ~FormatValid
    /\ ~ThemeValid

\* C38: IncrementTotal is atomic: when two goroutines have each finished one
\* IncrementTotal call, the total is the initial total plus both deltas.
C38_IncrementAtomic ==
    (\A c \in Callers : incPc[c] = "done")
        => total = Wrap(total0 + incDelta["g1"] + incDelta["g2"])

\* the batches laid end to end
RECURSIVE Concat(_)
Concat(seqs) == IF seqs = <<>> THEN <<>> ELSE Head(seqs) \o Concat(Tail(seqs))

\* every file went to processFile once, in list order, in consecutive batches
\* of at most batchSize files, and the summary adds up
EveryFileOnce ==
    /\ calls = files
    /\ Concat(batches) = files
    /\ \A n \in 1..Len(batches) :
          Len(batches[n]) >= 1 /\ Len(batches[n]) <= batchSize
    /\ statsTotal = Len(files)
    /\ statsProcessed + statsSkipped = statsTotal

IndexOutcome ==
    ixPc = "returned"
        => /\ ixErr \in {"nil", "ctx"}
           /\ ixErr = "nil" => EveryFileOnce
           /\ ~ixCtxDone => ixErr = "nil"
           /\ ixErr = "ctx"
                 => /\ ixCtxDone
                    /\ statsProcessed = 0
                    /\ statsSkipped = 0
                    /\ calls = SubSeq(files, 1, Len(calls))

\* the check that follows a batch returns the context error when it finds
\* the context cancelled
IndexCancelStep ==
    (ixPc = "after" /\ ixCtxDone) => (ixPc' = "returned" /\ ixErr' = "ctx")

MonitorReturnStep ==
    (monPc # "returned" /\ monPc' = "returned")
        => /\ monPc = "select"
           /\ monErr' = "nil"
           /\ (sigChan = 1 /\ sigChan' = 0) <=> (shutdowns' = shutdowns + 1)
           /\ shutdowns' = shutdowns + 1 \/ (monCtxDone /\ shutdowns' = shutdowns)

\* a loop that returned under a context that was never cancelled has run the
\* graceful shutdown once
MonitorShutdownRan ==
    (monPc = "returned" /\ ~monCtxDone) => shutdowns = 1

\* C33: in daemon mode and in interactive mode, once a signal is on sigChan
\* or the context is cancelled, the monitoring loop eventually leaves its
\* select loop and returns nil; when it leaves on a signal it has run the
\* graceful shutdown.
C33_MonitorStops ==
    /\ [][MonitorReturnStep]_vars
    /\ []MonitorShutdownRan
    /\ (sigChan = 1 \/ monCtxDone) ~> (monPc = "returned" /\ monErr = "nil")

\* the interactive loop ticked, took a signal, printed its summary and shut
\* down gracefully
C33_Witness ==
    /\ monPc = "returned"
    /\ ~daemon
    /\ ticks >= 1
    /\ ~monCtxDone
    /\ shutdowns = 1
    /\ summaries = 1
    /\ monErr = "nil"
====
